---- MODULE Spec2Model ----
(***************************************************************************)
(* Model of bot.py, the Telegram fuel-receipt tracker.                     *)
(*                                                                         *)
(* Persisted state is the JSON file DATA_FILE.  Every handler of the bot   *)
(* is one action of the sequential specification Spec (updates are         *)
(* processed one at a time); SpecAsync splits handle_photo and reset_data  *)
(* at their awaits and interleaves several of them; SpecReport starts from *)
(* large stores and runs the two text reports.                             *)
(*                                                                         *)
(* Representation of values:                                               *)
(*  - a JSON field value is [t, n, s]: t is "num", "str" or "absent";      *)
(*    decimal amounts are fixed point (liters, vat, total_price in         *)
(*    hundredths, price_per_liter in thousandths);                         *)
(*  - a string holding a date-shaped text "YYYY-MM-DD" is                  *)
(*    [t |-> "str", s |-> "date", n |-> YYYYMMDD];                         *)
(*  - years are four-digit (1000..9999), where strftime('%Y') is padded,   *)
(*    so the 'YYYY-MM' month key orders like the number YYYYMM.            *)
(***************************************************************************)
EXTENDS Integers, Sequences, FiniteSets, TLC

(***************************************************************************)
(* Bounds                                                                  *)
(***************************************************************************)
MaxStore == 3
NumTasks == 2
MaxTickets == 100

(***************************************************************************)
(* JSON values                                                             *)
(***************************************************************************)
Absent == [t |-> "absent", n |-> 0, s |-> ""]
JNum(n) == [t |-> "num", n |-> n, s |-> ""]
JStr(s) == [t |-> "str", n |-> 0, s |-> s]
JDate(n) == [t |-> "str", n |-> n, s |-> "date"]

Keys == {"date", "liters", "price_per_liter", "vat", "total_price", "fuel_type", "id", "timestamp"}

NoFields == [k \in Keys |-> Absent]

\* A JSON object carrying the six keys of the prompt (any may be Absent).
Obj(date, liters, ppl, vat, total, fuel) ==
    [k \in Keys |-> CASE k = "date" -> date
                      [] k = "liters" -> liters
                      [] k = "price_per_liter" -> ppl
                      [] k = "vat" -> vat
                      [] k = "total_price" -> total
                      [] k = "fuel_type" -> fuel
                      [] OTHER -> Absent]

\* A decoded JSON text: an object, an array of n elements, the number n, or null.
JObject(fields) == [j |-> "object", n |-> 0, fields |-> fields]
JArray(n) == [j |-> "array", n |-> n, fields |-> NoFields]
JNumber(n) == [j |-> "number", n |-> n, fields |-> NoFields]
JNull == [j |-> "null", n |-> 0, fields |-> NoFields]

\* Python truthiness of a decoded value (if not receipt_data).
Truthy(v) ==
    CASE v.j = "object" -> \E k \in Keys : v.fields[k].t # "absent"
      [] v.j = "array" -> v.n > 0
      [] v.j = "number" -> v.n # 0
      [] OTHER -> FALSE

(***************************************************************************)
(* The model's reply: a text made of tokens.                               *)
(***************************************************************************)
Ws == [tok |-> "ws", val |-> JNull]
FenceJson == [tok |-> "fence_json", val |-> JNull]
Fence == [tok |-> "fence", val |-> JNull]
Prose == [tok |-> "prose", val |-> JNull]
Truncated == [tok |-> "truncated", val |-> JNull]
Js(v) == [tok |-> "json", val |-> v]

RECURSIVE LStrip(_)
LStrip(text) ==
    IF text # <<>> /\ Head(text).tok = "ws" THEN LStrip(Tail(text)) ELSE text

RECURSIVE RStrip(_)
RStrip(text) ==
    IF text # <<>> /\ text[Len(text)].tok = "ws"
    THEN RStrip(SubSeq(text, 1, Len(text) - 1))
    ELSE text

\* str.strip()
Strip(text) == RStrip(LStrip(text))

\* the two .replace(..., '') calls that drop the code-fence markers
RemoveFences(text) == SelectSeq(text, LAMBDA x : x.tok \notin {"fence_json", "fence"})

\* json.loads: succeeds exactly on one complete JSON text.
JsonLoadsOk(text) == Len(text) = 1 /\ text[1].tok = "json"

\* analyze_receipt_image: the decoded value, or None (JNull) on any exception.
analyze_receipt_image(reply) ==
    IF reply.fail THEN JNull
    ELSE LET response_text == Strip(RemoveFences(Strip(reply.text)))
         IN IF JsonLoadsOk(response_text) THEN response_text[1].val ELSE JNull

(***************************************************************************)
(* Dates and number formatting                                             *)
(***************************************************************************)
YearOf(n) == n \div 10000
MonthOf(n) == (n \div 100) % 100
DayOf(n) == n % 100

IsLeap(y) == (y % 4 = 0 /\ y % 100 # 0) \/ y % 400 = 0

DaysIn(y, m) ==
    CASE m \in {4, 6, 9, 11} -> 30
      [] m = 2 -> IF IsLeap(y) THEN 29 ELSE 28
      [] OTHER -> 31

\* datetime.strptime(v, '%Y-%m-%d') returns (no KeyError, TypeError, ValueError).
StrptimeOk(v) ==
    /\ v.t = "str"
    /\ v.s = "date"
    /\ YearOf(v.n) \in 1000..9999
    /\ MonthOf(v.n) \in 1..12
    /\ DayOf(v.n) \in 1..DaysIn(YearOf(v.n), MonthOf(v.n))

\* receipt[k] can be formatted with :.2f / :.3f and added to a number.
NumOk(r, k) == r[k].t = "num"

Present(r, k) == r[k].t # "absent"

RECURSIVE Digits(_)
Digits(n) == IF n < 10 THEN 1 ELSE 1 + Digits(n \div 10)

\* len(f"{x:.2f}") for x >= 0 held in hundredths
LenFix2(c) == Digits(c \div 100) + 3

\* len(str(v)) of a field value placed in an f-string
StrLen(v) == IF v.t = "num" THEN Digits(v.n) ELSE Len(v.s)

(***************************************************************************)
(* State                                                                   *)
(***************************************************************************)
VARIABLES
    file,       \* DATA_FILE: [exists, data]
    out,        \* what the last handled update sent to the chat, in order
    last,       \* the last handled update: [op, args, reply, transport]
    tasks,      \* SpecAsync: the handler coroutines in flight, [pc, receipt_data, sent]
    appended,   \* history: receipts.append calls executed since the last reset
    photoFailed \* history: some photo update ended with a failure message

vars == <<file, out, last, tasks, appended, photoFailed>>

\* the file is looked up under another name and never found
load_receipts_missing == <<>>

\* load_receipts: FileNotFoundError gives []
load_receipts == IF file.exists THEN file.data ELSE <<>>

\* save_receipts: the whole file is rewritten
save_receipts(receipts) == [exists |-> TRUE, data |-> receipts]

Msg(kind, msg, data) == [kind |-> kind, msg |-> msg, data |-> data]
Text(msg) == Msg("text", msg, <<>>)

NoReply == [fail |-> FALSE, text |-> <<>>]
Update(op, args, reply, transport) ==
    [op |-> op, args |-> args, reply |-> reply, transport |-> transport]

(***************************************************************************)
(* handle_photo                                                            *)
(***************************************************************************)
\* the id is the count before the append
NextId_off(receipts) == Len(receipts)

\* receipt_data['id'] = len(receipts) + 1
NextId(receipts) == Len(receipts) + 1

\* receipts.append(receipt_data)
AppendReceipt(receipts, receipt_data) == Append(receipts, receipt_data)

\* lines 128-129: the two keys added to the decoded object
Stamp(fields, receipts) ==
    [fields EXCEPT !["id"] = JNum(NextId(receipts)), !["timestamp"] = JStr("now")]

\* lines 136-149 raise nothing: the date parses, every key is there, the
\* four amounts are numbers.
PhotoFormatOk(r) ==
    /\ Present(r, "date") /\ StrptimeOk(r["date"])
    /\ Present(r, "fuel_type")
    /\ NumOk(r, "liters") /\ NumOk(r, "price_per_liter")
    /\ NumOk(r, "vat") /\ NumOk(r, "total_price")

\* Lines 120-155 of handle_photo, from the result of the analysis to the last
\* reply: the new file and the message sent.
PhotoOutcome(receipt_data) ==
    IF ~Truthy(receipt_data)
    THEN [file |-> file, msg |-> Text("FAIL_ANALYZE"), stored |-> FALSE]
    ELSE IF receipt_data.j # "object"
    THEN [file |-> file, msg |-> Text("ERR_PHOTO"), stored |-> FALSE]
    ELSE LET receipts == load_receipts
             rd == Stamp(receipt_data.fields, receipts)
             saved == save_receipts(AppendReceipt(receipts, rd))
         IN IF PhotoFormatOk(rd)
            THEN [file |-> saved, msg |-> Msg("text", "SUCCESS", rd), stored |-> TRUE]
            ELSE [file |-> saved, msg |-> Text("ERR_PHOTO"), stored |-> TRUE]

IsFailure(m) == m.msg \in {"FAIL_ANALYZE", "ERR_PHOTO"}

(***************************************************************************)
(* Inputs: the replies of the model                                        *)
(***************************************************************************)
E1 == Obj(JDate(20250115), JNum(4000), JNum(1500), JNum(1000), JNum(6000), JStr("GAZOLE"))
E2 == Obj(JDate(20250120), JNum(3500), JNum(1500), JNum(875), JNum(5250), JStr("SP95"))
E3 == Obj(JDate(20250201), JNum(5000), JNum(1500), JNum(1250), JNum(7500), JStr("GAZOLE"))
\* a 2024 receipt with unreadable quantity: the prompt's 0 / INCONNU defaults
E4 == Obj(JDate(20241231), JNum(0), JNum(0), JNum(0), JNum(1000), JStr("INCONNU"))
\* the key "date" is missing
NoDateObj == Obj(Absent, JNum(4000), JNum(1500), JNum(1000), JNum(6000), JStr("GAZOLE"))
\* liters is a string
BadLitersObj == Obj(JDate(20250115), JStr("abc"), JNum(1500), JNum(1000), JNum(6000), JStr("GAZOLE"))
\* the date is a string that is not YYYY-MM-DD
BadDateObj == Obj(JStr("15/01/2025"), JNum(4000), JNum(1500), JNum(1000), JNum(6000), JStr("GAZOLE"))

WellFormedObjs == {E1, E2, E3, E4}
MalformedObjs == {NoDateObj, BadLitersObj, BadDateObj}

Said(text) == [fail |-> FALSE, text |-> text]
CallFailed == [fail |-> TRUE, text |-> <<>>]

Replies ==
    {Said(<<Js(JObject(o))>>) : o \in WellFormedObjs \cup MalformedObjs}
    \cup {Said(<<FenceJson, Ws, Js(JObject(E1)), Ws, Fence>>),
          Said(<<Ws, Fence, Js(JObject(NoDateObj)), Fence, Ws>>),
          Said(<<Prose>>),
          Said(<<Prose, Ws, Js(JObject(E1))>>),
          Said(<<Truncated>>),
          Said(<<Js(JObject(NoFields))>>),
          Said(<<Js(JArray(2))>>),
          CallFailed}

PhotoUpdates ==
    {Update("photo", <<>>, r, TRUE) : r \in Replies}
    \cup {Update("photo", <<>>, NoReply, FALSE)}

(***************************************************************************)
(* Sequential handlers                                                     *)
(***************************************************************************)
Tasks == 1..NumTasks

Idle == [pc |-> "idle", receipt_data |-> JNull, sent |-> ""]

Init ==
    /\ file = [exists |-> FALSE, data |-> <<>>]
    /\ tasks = [h \in Tasks |-> Idle]
    /\ out = <<>>
    /\ last = Update("init", <<>>, NoReply, TRUE)
    /\ appended = 0
    /\ photoFailed = FALSE

\* start
Start ==
    /\ out' = <<Text("WELCOME")>>
    /\ last' = Update("start", <<>>, NoReply, TRUE)
    /\ UNCHANGED <<file, tasks, appended, photoFailed>>

\* handle_photo; transport = FALSE is get_file / download_as_bytearray raising
handle_photo ==
    /\ Len(load_receipts) < MaxStore
    /\ \E u \in PhotoUpdates :
         LET o == IF u.transport
                  THEN PhotoOutcome(analyze_receipt_image(u.reply))
                  ELSE [file |-> file, msg |-> Text("ERR_PHOTO"), stored |-> FALSE]
         IN /\ file' = o.file
            /\ out' = <<Text("ACK_PHOTO"), o.msg>>
            /\ last' = u
            /\ appended' = IF o.stored THEN appended + 1 ELSE appended
            /\ photoFailed' = (photoFailed \/ IsFailure(o.msg))
            /\ UNCHANGED tasks

\* reset_data
reset_data ==
    /\ file' = save_receipts(<<>>)
    /\ out' = <<Text("RESET_DONE")>>
    /\ last' = Update("reset", <<>>, NoReply, TRUE)
    /\ appended' = 0
    /\ UNCHANGED <<tasks, photoFailed>>

(***************************************************************************)
(* Monthly aggregation and the text reports                                *)
(***************************************************************************)
\* date_obj.strftime('%Y-%m'), as the number YYYYMM
MonthKey(date) == date.n \div 100

\* len(date_obj.strftime('%B %Y'))
MonthNameLen(key) ==
    LET m == key % 100
    IN 5 + CASE m \in {1, 10} -> 7
             [] m \in {2, 11, 12} -> 8
             [] m \in {3, 4} -> 5
             [] m = 5 -> 3
             [] m \in {6, 7} -> 4
             [] m = 8 -> 6
             [] OTHER -> 9

\* the keys sorted without reverse=True
SortedKeysDesc_asc(S) ==
    [p \in 1..Cardinality(S) |->
        CHOOSE x \in S : Cardinality({y \in S : y < x}) = p - 1]

\* sorted(monthly_data.keys(), reverse=True): the key with p - 1 larger keys
\* comes p-th
SortedKeysDesc(S) ==
    [p \in 1..Cardinality(S) |->
        CHOOSE x \in S : Cardinality({y \in S : y > x}) = p - 1]

\* xs[lo] + ... + xs[hi]
RECURSIVE SumRange(_, _, _)
SumRange(xs, lo, hi) ==
    IF lo > hi THEN 0
    ELSE IF lo = hi THEN xs[lo]
    ELSE LET mid == (lo + hi) \div 2
         IN SumRange(xs, lo, mid) + SumRange(xs, mid + 1, hi)

Sum(xs) == SumRange(xs, 1, Len(xs))

\* sum(r[k] for r in receipts)
SumField(receipts, k) == Sum([i \in 1..Len(receipts) |-> receipts[i][k].n])

\* show_total, lines 172-184: one pass of the loop body
AddToMonth(md, r) ==
    LET key == MonthKey(r["date"])
        cur == IF key \in DOMAIN md
               THEN md[key]
               ELSE [key |-> key, count |-> 0, total_liters |-> 0,
                     total_vat |-> 0, total_price |-> 0]
        new == [key |-> key,
                count |-> cur.count + 1,
                total_liters |-> cur.total_liters + r["liters"].n,
                total_vat |-> cur.total_vat + r["vat"].n,
                total_price |-> cur.total_price + r["total_price"].n]
    IN IF key \in DOMAIN md THEN [md EXCEPT ![key] = new] ELSE md @@ (key :> new)

\* show_total, lines 166-184: the dict monthly_data after the loop has run
\* over receipts[lo..hi] in order, starting from md
RECURSIVE MonthlyData(_, _, _, _)
MonthlyData(receipts, lo, hi, md) ==
    IF lo > hi THEN md
    ELSE IF lo = hi THEN AddToMonth(md, receipts[lo])
    ELSE LET mid == (lo + hi) \div 2
             left == MonthlyData(receipts, lo, mid, md)
         IN \* the test has TLC evaluate left before it goes on with the rest
            IF DOMAIN left = {} THEN left ELSE MonthlyData(receipts, mid + 1, hi, left)

\* the month blocks of the summary, in the order they are written
MonthlyGroups(receipts) ==
    LET md == MonthlyData(receipts, 1, Len(receipts), <<>>)
        order == SortedKeysDesc(DOMAIN md)
    IN [i \in 1..Len(order) |-> md[order[i]]]

\* lines 198-201
GlobalTotals(receipts) ==
    [total_tickets |-> Len(receipts),
     total_liters |-> SumField(receipts, "liters"),
     total_vat |-> SumField(receipts, "vat"),
     total_price |-> SumField(receipts, "total_price")]

\* len of the five lines written for one month (lines 191-195)
GroupTextLen(g) ==
    (3 + MonthNameLen(g.key)) + (15 + Digits(g.count)) + (16 + LenFix2(g.total_liters))
    + (13 + LenFix2(g.total_vat)) + (16 + LenFix2(g.total_price))

\* len(response) in show_total: header, month blocks, footer
TotalTextLen(groups, t) ==
    50 + Sum([i \in 1..Len(groups) |-> GroupTextLen(groups[i])])
    + 31 + 16 + (15 + Digits(t.total_tickets)) + (16 + LenFix2(t.total_liters))
    + (13 + LenFix2(t.total_vat)) + (15 + LenFix2(t.total_price))

\* the loop and the sums of show_total raise nothing
TotalOk(receipts) ==
    \A i \in 1..Len(receipts) :
        /\ Present(receipts[i], "date") /\ StrptimeOk(receipts[i]["date"])
        /\ NumOk(receipts[i], "liters") /\ NumOk(receipts[i], "vat")
        /\ NumOk(receipts[i], "total_price")

\* A piece response[lo-1:hi] of a report text of length len, with the
\* structured content the text was written from.
Part(msg, lo, hi, len, body) ==
    Msg("text", msg, [lo |-> lo, hi |-> hi, len |-> len, body |-> body])

\* what show_total sends
TotalMessages(receipts) ==
    IF receipts = <<>> THEN <<Text("NO_TICKETS_TOTAL")>>
    ELSE IF ~TotalOk(receipts) THEN <<Text("ERR_GENERIC")>>
    ELSE LET groups == MonthlyGroups(receipts)
             t == GlobalTotals(receipts)
             len == TotalTextLen(groups, t)
         IN <<Part("TOTALS", 1, len, len, [groups |-> groups, totals |-> t])>>

\* show_total; an exception goes to error_handler
show_total ==
    /\ out' = TotalMessages(load_receipts)
    /\ last' = Update("total", <<>>, NoReply, TRUE)
    /\ UNCHANGED <<file, tasks, appended, photoFailed>>

(***************************************************************************)
(* show_list                                                               *)
(***************************************************************************)
ChunkSize == 4000

\* sorted(receipts, key=date, reverse=True) is stable: receipts[i] comes after
\* the later dates and after the earlier receipts of the same date
RankDesc(receipts, i) ==
    1 + Cardinality({j \in 1..Len(receipts) :
                        \/ receipts[j]["date"].n > receipts[i]["date"].n
                        \/ receipts[j]["date"].n = receipts[i]["date"].n /\ j < i})

SortedByDateDesc(receipts) ==
    \* SubSeq has TLC compute the ranks once
    LET rank == SubSeq([i \in 1..Len(receipts) |-> RankDesc(receipts, i)], 1, Len(receipts))
    IN [p \in 1..Len(receipts) |->
           receipts[CHOOSE i \in 1..Len(receipts) : rank[i] = p]]

\* len of the two lines written for one ticket (lines 226-227)
EntryTextLen(r) ==
    (5 + StrLen(r["id"]) + 10)
    + (13 + StrLen(r["fuel_type"]) + LenFix2(r["liters"].n) + LenFix2(r["total_price"].n))

\* len(response) in show_list
ListTextLen(entries) ==
    52 + Sum([i \in 1..Len(entries) |-> EntryTextLen(entries[i])])

\* the sort and the loop of show_list raise nothing
ListOk(receipts) ==
    \A i \in 1..Len(receipts) :
        /\ Present(receipts[i], "date") /\ StrptimeOk(receipts[i]["date"])
        /\ Present(receipts[i], "id") /\ Present(receipts[i], "fuel_type")
        /\ NumOk(receipts[i], "liters") /\ NumOk(receipts[i], "total_price")

\* range(0, len, 4000)
ChunkStarts(len) == [k \in 1..((len + ChunkSize - 1) \div ChunkSize) |-> (k - 1) * ChunkSize]

Min(a, b) == IF a < b THEN a ELSE b

\* lines 230-236
ListParts(len, body) ==
    IF len > ChunkSize
    THEN LET starts == ChunkStarts(len)
         IN [k \in 1..Len(starts) |->
                Part("LIST", starts[k] + 1, Min(starts[k] + ChunkSize, len), len, body)]
    ELSE <<Part("LIST", 1, len, len, body)>>

\* what show_list sends
ListMessages(receipts) ==
    IF receipts = <<>> THEN <<Text("NO_TICKETS_LIST")>>
    ELSE IF ~ListOk(receipts) THEN <<Text("ERR_GENERIC")>>
    ELSE LET entries == SortedByDateDesc(receipts)
             ids == [i \in 1..Len(entries) |-> entries[i]["id"].n]
         IN ListParts(ListTextLen(entries), ids)

\* show_list; an exception goes to error_handler
show_list ==
    /\ out' = ListMessages(load_receipts)
    /\ last' = Update("liste", <<>>, NoReply, TRUE)
    /\ UNCHANGED <<file, tasks, appended, photoFailed>>

(***************************************************************************)
(* The PDF report                                                          *)
(***************************************************************************)
DigitChars == <<"0", "1", "2", "3", "4", "5", "6", "7", "8", "9">>

IsDigit(c) == \E d \in 1..10 : DigitChars[d] = c

DigitVal(c) == (CHOOSE d \in 1..10 : DigitChars[d] = c) - 1

Unsigned(cs) == IF cs # <<>> /\ cs[1] \in {"+", "-"} THEN Tail(cs) ELSE cs

\* int(s) returns: an optional sign, then one or more digits
IsInt(cs) ==
    /\ Unsigned(cs) # <<>>
    /\ \A i \in 1..Len(Unsigned(cs)) : IsDigit(Unsigned(cs)[i])

RECURSIVE DigitsVal(_, _)
DigitsVal(cs, i) ==
    IF i = 0 THEN 0 ELSE 10 * DigitsVal(cs, i - 1) + DigitVal(cs[i])

\* int(s)
IntVal(cs) ==
    LET v == DigitsVal(Unsigned(cs), Len(Unsigned(cs)))
    IN IF cs[1] = "-" THEN 0 - v ELSE v

None == [some |-> FALSE, v |-> 0]
Some(v) == [some |-> TRUE, v |-> v]

\* the test `year` of generate_pdf and generate_pdf_command
YearTruthy(year) == year.some /\ year.v # 0

AllDatesOk(receipts) ==
    \A i \in 1..Len(receipts) :
        Present(receipts[i], "date") /\ StrptimeOk(receipts[i]["date"])

\* line 269, and the list of the caption at line 447
InYear(receipts, year) ==
    IF YearTruthy(year)
    THEN SelectSeq(receipts, LAMBDA r : YearOf(r["date"].n) = year.v)
    ELSE receipts

\* the title, and the file name of the command: year-specific or not
Label(year) ==
    IF YearTruthy(year) THEN [all |-> FALSE, year |-> year.v] ELSE [all |-> TRUE, year |-> 0]

\* sorted(data['receipts'], key=date) is stable: receipts[i] comes after the
\* earlier dates and after the earlier receipts of the same date
RankAsc(receipts, i) ==
    1 + Cardinality({j \in 1..Len(receipts) :
                        \/ receipts[j]["date"].n < receipts[i]["date"].n
                        \/ receipts[j]["date"].n = receipts[i]["date"].n /\ j < i})

SortedByDateAsc(receipts) ==
    \* SubSeq has TLC compute the ranks once
    LET rank == SubSeq([i \in 1..Len(receipts) |-> RankAsc(receipts, i)], 1, Len(receipts))
    IN [p \in 1..Len(receipts) |->
           receipts[CHOOSE i \in 1..Len(receipts) : rank[i] = p]]

\* generate_pdf, lines 295-305: one pass of the loop body
AddToSection(md, r) ==
    LET key == MonthKey(r["date"])
        cur == IF key \in DOMAIN md
               THEN md[key]
               ELSE [key |-> key, receipts |-> <<>>, liters |-> 0, vat |-> 0,
                     total_price |-> 0]
        new == [key |-> key,
                receipts |-> Append(cur.receipts, r),
                liters |-> cur.liters + r["liters"].n,
                vat |-> cur.vat + r["vat"].n,
                total_price |-> cur.total_price + r["total_price"].n]
    IN IF key \in DOMAIN md THEN [md EXCEPT ![key] = new] ELSE md @@ (key :> new)

\* generate_pdf, lines 289-305: the dict monthly_data after the loop has run
\* over receipts[lo..hi] in order, starting from md
RECURSIVE MonthlySections(_, _, _, _)
MonthlySections(receipts, lo, hi, md) ==
    IF lo > hi THEN md
    ELSE IF lo = hi THEN AddToSection(md, receipts[lo])
    ELSE LET mid == (lo + hi) \div 2
             left == MonthlySections(receipts, lo, mid, md)
         IN \* the test has TLC evaluate left before it goes on with the rest
            IF DOMAIN left = {} THEN left ELSE MonthlySections(receipts, mid + 1, hi, left)

\* one table row, lines 320-327
Row(r) ==
    [date |-> r["date"].n, fuel_type |-> r["fuel_type"], liters |-> r["liters"].n,
     price_per_liter |-> r["price_per_liter"].n, vat |-> r["vat"].n,
     total_price |-> r["total_price"].n]

\* the month sections of the document, in the order they are laid out
Sections(receipts) ==
    LET md == MonthlySections(receipts, 1, Len(receipts), <<>>)
        order == SortedKeysDesc(DOMAIN md)
    IN [i \in 1..Len(order) |->
           LET data == md[order[i]]
               rows == SortedByDateAsc(data.receipts)
           IN [key |-> data.key,
               rows |-> [j \in 1..Len(rows) |-> Row(rows[j])],
               liters |-> data.liters, vat |-> data.vat, total_price |-> data.total_price]]

\* line 379 without its guard: the division is made whatever the liters are
avg_price_per_liter_unguarded(total_price, total_liters) ==
    IF total_liters > 0
    THEN [raised |-> FALSE,
          value |-> (2000 * total_price + total_liters) \div (2 * total_liters)]
    ELSE [raised |-> TRUE, value |-> 0]

\* line 379, as line 384 shows it with :.3f: the quotient of the two totals
\* (both in hundredths) in thousandths of a euro per liter, to the nearest
\* thousandth; raised tells a ZeroDivisionError
avg_price_per_liter(total_price, total_liters) ==
    IF total_liters > 0
    THEN [raised |-> FALSE,
          value |-> (2000 * total_price + total_liters) \div (2 * total_liters)]
    ELSE [raised |-> FALSE, value |-> 0]

\* lines 375-379
Summary(receipts) ==
    LET t == GlobalTotals(receipts)
    IN [total_tickets |-> t.total_tickets, total_liters |-> t.total_liters,
        total_vat |-> t.total_vat, total_price |-> t.total_price,
        avg_price_per_liter |-> avg_price_per_liter(t.total_price, t.total_liters).value]

NoSummary ==
    [total_tickets |-> 0, total_liters |-> 0, total_vat |-> 0, total_price |-> 0,
     avg_price_per_liter |-> 0]

\* the tables of generate_pdf raise nothing on the receipts in scope
RowsOk(receipts) ==
    \A i \in 1..Len(receipts) :
        /\ Present(receipts[i], "date") /\ StrptimeOk(receipts[i]["date"])
        /\ Present(receipts[i], "fuel_type")
        /\ NumOk(receipts[i], "liters") /\ NumOk(receipts[i], "price_per_liter")
        /\ NumOk(receipts[i], "vat") /\ NumOk(receipts[i], "total_price")

\* the exceptions generate_pdf can end with, as str(e) tells them apart
NotRaised == "none"
LookupOrValueError == "KeyError, TypeError or ValueError"
ZeroDivisionError == "float division by zero"

Failed(year, e) ==
    [ok |-> FALSE, raised |-> e, title |-> Label(year), notice |-> FALSE,
     sections |-> <<>>, summary |-> NoSummary]

\* generate_pdf(receipts, year): the document, or ok = FALSE when it raises
generate_pdf(receipts, year) ==
    IF YearTruthy(year) /\ ~AllDatesOk(receipts)
    THEN Failed(year, LookupOrValueError)
    ELSE LET scope == InYear(receipts, year)
         IN IF scope = <<>>
            THEN [ok |-> TRUE, raised |-> NotRaised, title |-> Label(year),
                  notice |-> TRUE, sections |-> <<>>, summary |-> NoSummary]
            ELSE IF ~RowsOk(scope)
            THEN Failed(year, LookupOrValueError)
            ELSE LET t == GlobalTotals(scope)
                 IN IF avg_price_per_liter(t.total_price, t.total_liters).raised
                    THEN Failed(year, ZeroDivisionError)
                    ELSE [ok |-> TRUE, raised |-> NotRaised, title |-> Label(year),
                          notice |-> FALSE, sections |-> Sections(scope),
                          summary |-> Summary(scope)]

\* context.args of the /pdf command: words made of characters
PdfArgs ==
    {<<>>,
     <<<<"2", "0", "2", "5">>>>,
     <<<<"2", "0", "2", "4">>>>,
     <<<<"1", "9", "9", "9">>>>,
     <<<<"0">>>>,
     <<<<"-", "1">>>>,
     <<<<"+", "2", "0", "2", "5">>>>,
     <<<<"a", "b", "c">>>>,
     <<<<"2", "0", "x", "5">>>>,
     <<<<"-">>>>,
     <<<<"2", "0", "2", "5">>, <<"a", "b", "c">>>>}

\* a ValueError of int() is swallowed and the report is made for all years
PdfMessage_silent(receipts, args) ==
    IF receipts = <<>> THEN Text("NO_TICKETS_PDF")
    ELSE LET year == IF args # <<>> /\ IsInt(args[1]) THEN Some(IntVal(args[1])) ELSE None
             pdf == generate_pdf(receipts, year)
         IN IF ~pdf.ok THEN Msg("text", "ERR_PDF", [e |-> pdf.raised])
            ELSE Msg("document", "REPORT",
                     [doc |-> pdf, filename |-> Label(year),
                      caption_count |-> Len(InYear(receipts, year))])

\* what generate_pdf_command sends after the progress notice
PdfMessage(receipts, args) ==
    IF receipts = <<>> THEN Text("NO_TICKETS_PDF")
    ELSE IF args # <<>> /\ ~IsInt(args[1]) THEN Text("USAGE_PDF")
    ELSE LET year == IF args # <<>> THEN Some(IntVal(args[1])) ELSE None
             pdf == generate_pdf(receipts, year)
         IN IF ~pdf.ok THEN Msg("text", "ERR_PDF", [e |-> pdf.raised])
            ELSE Msg("document", "REPORT",
                     [doc |-> pdf, filename |-> Label(year),
                      caption_count |-> Len(InYear(receipts, year))])

\* generate_pdf_command
generate_pdf_command ==
    \E args \in PdfArgs :
        /\ out' = <<Text("PDF_PROGRESS"), PdfMessage(load_receipts, args)>>
        /\ last' = Update("pdf", args, NoReply, TRUE)
        /\ UNCHANGED <<file, tasks, appended, photoFailed>>

(***************************************************************************)
(* The bot handling one update at a time                                   *)
(***************************************************************************)
Next ==
    \/ Start
    \/ handle_photo
    \/ show_total
    \/ show_list
    \/ generate_pdf_command
    \/ reset_data

Spec == Init /\ [][Next]_vars

(***************************************************************************)
(* Handlers interleaved at their awaits                                    *)
(***************************************************************************)
AsyncReplies ==
    {Said(<<Js(JObject(E1))>>), Said(<<Js(JObject(E3))>>),
     Said(<<Js(JObject(NoDateObj))>>), Said(<<Prose>>)}

InFlight == Cardinality({h \in Tasks : tasks[h].pc \notin {"idle", "reset_reply"}})

\* line 106: the acknowledgement is sent and awaited
PhotoBegin(h) ==
    /\ tasks[h].pc = "idle"
    /\ Len(load_receipts) + InFlight < MaxStore
    /\ tasks' = [tasks EXCEPT ![h] = [pc |-> "ack", receipt_data |-> JNull, sent |-> "ACK_PHOTO"]]
    /\ UNCHANGED <<file, out, last, appended, photoFailed>>

\* line 111: get_file is awaited
PhotoGetFile(h) ==
    /\ tasks[h].pc = "ack"
    /\ tasks' = [tasks EXCEPT ![h].pc = "get_file"]
    /\ UNCHANGED <<file, out, last, appended, photoFailed>>

\* line 114: get_file returned and the download is awaited, or get_file
\* raised and the error message is sent (line 155)
PhotoDownload(h) ==
    /\ tasks[h].pc = "get_file"
    /\ \E ok \in BOOLEAN :
         tasks' = [tasks EXCEPT ![h] =
                     IF ok THEN [@ EXCEPT !.pc = "download"]
                     ELSE [@ EXCEPT !.pc = "reply", !.sent = "ERR_PHOTO"]]
    /\ UNCHANGED <<file, out, last, appended, photoFailed>>

\* lines 115-118: the download returned and the analysis is awaited, or the
\* download raised
PhotoAnalyze(h) ==
    /\ tasks[h].pc = "download"
    /\ \/ \E reply \in AsyncReplies :
            tasks' = [tasks EXCEPT ![h] =
                        [@ EXCEPT !.pc = "analyze",
                                  !.receipt_data = analyze_receipt_image(reply)]]
       \/ tasks' = [tasks EXCEPT ![h] = [@ EXCEPT !.pc = "reply", !.sent = "ERR_PHOTO"]]
    /\ UNCHANGED <<file, out, last, appended, photoFailed>>

\* lines 120-155 up to the awaited reply_text: no await in between
PhotoStore(h) ==
    /\ tasks[h].pc = "analyze"
    /\ LET o == PhotoOutcome(tasks[h].receipt_data)
       IN /\ file' = o.file
          /\ appended' = IF o.stored THEN appended + 1 ELSE appended
          /\ tasks' = [tasks EXCEPT ![h] = [@ EXCEPT !.pc = "reply", !.sent = o.msg.msg]]
    /\ UNCHANGED <<out, last, photoFailed>>

\* reset_data up to the awaited reply_text
ResetBegin(h) ==
    /\ tasks[h].pc = "idle"
    /\ file' = save_receipts(<<>>)
    /\ appended' = 0
    /\ tasks' = [tasks EXCEPT ![h] = [pc |-> "reset_reply", receipt_data |-> JNull,
                                      sent |-> "RESET_DONE"]]
    /\ UNCHANGED <<out, last, photoFailed>>

\* the last reply_text returned: the handler is over
TaskEnd(h) ==
    /\ tasks[h].pc \in {"reply", "reset_reply"}
    /\ tasks' = [tasks EXCEPT ![h] = Idle]
    /\ UNCHANGED <<file, out, last, appended, photoFailed>>

NextAsync ==
    \E h \in Tasks :
        \/ PhotoBegin(h)
        \/ PhotoGetFile(h)
        \/ PhotoDownload(h)
        \/ PhotoAnalyze(h)
        \/ PhotoStore(h)
        \/ ResetBegin(h)
        \/ TaskEnd(h)

SpecAsync == Init /\ [][NextAsync]_vars

(***************************************************************************)
(* The text reports on large stores                                        *)
(***************************************************************************)
LongFuel == "GAZOLE EXCELLIUM PREMIUM PLUS ADDITIVE 2025"

\* The i-th of n well-formed tickets: one month apart when spread, else all
\* on the same day.
Ticket(i, spread, fuel) ==
    LET date == IF spread
                THEN (2000 + (i - 1) \div 12) * 10000 + (((i - 1) % 12) + 1) * 100 + 15
                ELSE 20250115
        fields == Obj(JDate(date), JNum(4000), JNum(1500), JNum(1000), JNum(6000), JStr(fuel))
    IN [fields EXCEPT !["id"] = JNum(i), !["timestamp"] = JStr("now")]

InitReport ==
    /\ \E n \in 0..MaxTickets, spread \in BOOLEAN, fuel \in {"GAZOLE", LongFuel} :
         /\ file = save_receipts([i \in 1..n |-> Ticket(i, spread, fuel)])
         /\ appended = n
    /\ tasks = [h \in Tasks |-> Idle]
    /\ out = <<>>
    /\ last = Update("init", <<>>, NoReply, TRUE)
    /\ photoFailed = FALSE

NextReport ==
    \/ show_total
    \/ show_list

SpecReport == InitReport /\ [][NextReport]_vars

(***************************************************************************)
(* Properties                                                              *)
(***************************************************************************)
\* The update just handled, and what it sent
Analyzed(u) == u.op = "photo" /\ u.transport /\ ~u.reply.fail

\* The six keys of the prompt with the types it asks for
SixKeysTyped(fields) ==
    /\ StrptimeOk(fields["date"])
    /\ fields["fuel_type"].t = "str"
    /\ \A k \in {"liters", "price_per_liter", "vat", "total_price"} : fields[k].t = "num"

\* The reply is not one fenced or bare JSON object with the six typed keys
MalformedReply(reply) ==
    LET text == Strip(RemoveFences(Strip(reply.text)))
    IN \/ Len(text) # 1
       \/ text[1].tok # "json"
       \/ text[1].val.j # "object"
       \/ ~SixKeysTyped(text[1].val.fields)

\* C1: a photo whose model reply is malformed ends with a failure message and
\* leaves the persisted store as it was.
C1_MalformedReplyStoresNothing ==
    [][(Analyzed(last') /\ MalformedReply(last'.reply))
        => (file' = file /\ IsFailure(out'[Len(out')]))]_vars

\* C2: the i-th stored record has id i, the store is as long as the number of
\* appends since the last reset, and the store is empty right after a reset.
C2_IdsAreIndexes ==
    /\ \A i \in 1..Len(file.data) : file.data[i]["id"] = JNum(i)
    /\ Len(file.data) = appended
    /\ (last.op = "reset" => load_receipts = <<>>)

C2_Witness ==
    /\ last.op = "photo"
    /\ photoFailed
    /\ Len(file.data) = 3
    /\ file.data[3]["id"] = JNum(3)

ErrorMessages == {"ERR_GENERIC", "ERR_PDF"}

\* C3: once a photo has ended with a failure message, /total, /liste and /pdf
\* still answer with their normal output, never with an error message.
C3_ReportsSurviveFailedPhoto ==
    (photoFailed /\ last.op \in {"total", "liste", "pdf"})
        => \A i \in 1..Len(out) : out[i].msg \notin ErrorMessages

\* C4: with handlers interleaved at their awaits no append is lost and no id
\* is given twice: the store holds one record per append since the last
\* reset and their ids are pairwise distinct.
C4_NoLostUpdate ==
    /\ Len(file.data) = appended
    /\ \A i, j \in 1..Len(file.data) :
           i # j => file.data[i]["id"] # file.data[j]["id"]

C4_Witness ==
    /\ \A h \in {1, 2} : tasks[h].pc = "reply" /\ tasks[h].sent = "SUCCESS"
    /\ Len(file.data) = 2
    /\ appended = 2

\* The /pdf update just handled carried a well-formed integer year
PdfWithYear == last.op = "pdf" /\ last.args # <<>> /\ IsInt(last.args[1])

\* The stored records whose date falls in calendar year y
IndexesOfYear(y) ==
    {i \in 1..Len(file.data) :
        StrptimeOk(file.data[i]["date"]) /\ YearOf(file.data[i]["date"].n) = y}

RowsOf(doc) ==
    UNION {{<<p, j>> : j \in 1..Len(doc.sections[p].rows)} : p \in 1..Len(doc.sections)}

\* C5: when a well-formed year is given to /pdf, the rows of the document,
\* the ticket count of the caption, the title and the file name are those of
\* exactly the stored records of that year.
C5_YearRestrictsReport ==
    (PdfWithYear /\ out[2].kind = "document")
        => LET y == IntVal(last.args[1])
               d == out[2].data
           IN /\ d.doc.title = [all |-> FALSE, year |-> y]
              /\ d.filename = [all |-> FALSE, year |-> y]
              /\ d.caption_count = Cardinality(IndexesOfYear(y))
              /\ Cardinality(RowsOf(d.doc)) = Cardinality(IndexesOfYear(y))
              /\ \A x \in RowsOf(d.doc) :
                     YearOf(d.doc.sections[x[1]].rows[x[2]].date) = y

\* C6: whatever the store holds, /pdf with a well-formed year that no record
\* has delivers a document made of the title and the no-records notice.
C6_EmptyYearGetsNoticeDocument ==
    (PdfWithYear /\ IndexesOfYear(IntVal(last.args[1])) = {})
        => /\ out[2].kind = "document"
           /\ out[2].data.doc.notice
           /\ out[2].data.doc.sections = <<>>

\* The /pdf update of a step carried a year that is not a well-formed integer
BadYear(u) == u.op = "pdf" /\ u.args # <<>> /\ ~IsInt(u.args[1])

IsReportPart(m) == m.msg \in {"TOTALS", "LIST"}

\* C8: every message of the two text reports is at most 4000 characters
\* long, and the messages are the consecutive pieces of the report text.
C8_ReportMessagesBounded ==
    (last.op \in {"total", "liste"} /\ IsReportPart(out[1]))
        => /\ \A i \in 1..Len(out) : out[i].data.hi - out[i].data.lo + 1 <= 4000
           /\ out[1].data.lo = 1
           /\ out[Len(out)].data.hi = out[1].data.len
           /\ \A i \in 1..(Len(out) - 1) : out[i + 1].data.lo = out[i].data.hi + 1

\* C9: only a photo that ends with the success message and reset change the
\* store: the first adds one record at the end, the second empties it.
C9_OnlySuccessAndResetChangeStore ==
    [][LET before == load_receipts
           after == IF file'.exists THEN file'.data ELSE <<>>
       IN IF last'.op = "photo" /\ out'[Len(out')].msg = "SUCCESS"
          THEN /\ Len(after) = Len(before) + 1
               /\ SubSeq(after, 1, Len(before)) = before
          ELSE IF last'.op = "reset"
          THEN after = <<>>
          ELSE after = before]_vars

\* The sum of field k over the stored records with indexes in S
RECURSIVE StoredSum(_, _)
StoredSum(S, k) ==
    IF S = {} THEN 0
    ELSE LET i == CHOOSE x \in S : TRUE
         IN file.data[i][k].n + StoredSum(S \ {i}, k)

IndexesOfMonth(key) == {i \in 1..Len(file.data) : MonthKey(file.data[i]["date"]) = key}

Shuffled(receipts, perm) == [i \in 1..Len(receipts) |-> receipts[perm[i]]]

\* the same for the month sections of a PDF document and its summary page,
\* over the records the document is about
C10_DocumentSections ==
    (last.op = "pdf" /\ out[2].kind = "document" /\ ~out[2].data.doc.notice)
        => LET doc == out[2].data.doc
               scope == IF doc.title.all
                        THEN 1..Len(file.data)
                        ELSE IndexesOfYear(doc.title.year)
               months == {MonthKey(file.data[i]["date"]) : i \in scope}
               secs == doc.sections
           IN /\ Len(secs) = Cardinality(months)
              /\ \A p \in 1..Len(secs) : secs[p].key \in months
              /\ \A p, q \in 1..Len(secs) : p < q => secs[p].key > secs[q].key
              /\ \A p \in 1..Len(secs) :
                     LET of == scope \cap IndexesOfMonth(secs[p].key)
                     IN /\ Len(secs[p].rows) = Cardinality(of)
                        /\ secs[p].liters = StoredSum(of, "liters")
                        /\ secs[p].vat = StoredSum(of, "vat")
                        /\ secs[p].total_price = StoredSum(of, "total_price")
              /\ Sum([p \in 1..Len(secs) |-> Len(secs[p].rows)]) = doc.summary.total_tickets
              /\ Sum([p \in 1..Len(secs) |-> secs[p].liters]) = doc.summary.total_liters
              /\ Sum([p \in 1..Len(secs) |-> secs[p].vat]) = doc.summary.total_vat
              /\ Sum([p \in 1..Len(secs) |-> secs[p].total_price]) = doc.summary.total_price

\* C10: the monthly totals have one group per month present, latest month
\* first; a group counts and sums exactly the records of its month, in
\* whatever order the records are stored, and the groups add up to the
\* global totals.
C10_MonthlyGroupsExact ==
    /\ C10_DocumentSections
    /\ (last.op = "total" /\ out[1].msg = "TOTALS")
           => LET groups == out[1].data.body.groups
                  t == out[1].data.body.totals
                  months == {MonthKey(file.data[i]["date"]) : i \in 1..Len(file.data)}
              IN /\ Len(groups) = Cardinality(months)
                 /\ \A p \in 1..Len(groups) : groups[p].key \in months
                 /\ \A p, q \in 1..Len(groups) : p < q => groups[p].key > groups[q].key
                 /\ \A p \in 1..Len(groups) :
                        LET of == IndexesOfMonth(groups[p].key)
                        IN /\ groups[p].count = Cardinality(of)
                           /\ groups[p].total_liters = StoredSum(of, "liters")
                           /\ groups[p].total_vat = StoredSum(of, "vat")
                           /\ groups[p].total_price = StoredSum(of, "total_price")
                 /\ Sum([p \in 1..Len(groups) |-> groups[p].count]) = t.total_tickets
                 /\ t.total_tickets = Len(file.data)
                 /\ Sum([p \in 1..Len(groups) |-> groups[p].total_liters]) = t.total_liters
                 /\ Sum([p \in 1..Len(groups) |-> groups[p].total_vat]) = t.total_vat
                 /\ Sum([p \in 1..Len(groups) |-> groups[p].total_price]) = t.total_price
                 /\ \A perm \in Permutations(1..Len(file.data)) :
                        MonthlyGroups(Shuffled(file.data, perm)) = groups

\* the three tickets of 2025-01-15, 2025-01-20 and 2025-02-01
C10_Witness ==
    /\ last.op = "total"
    /\ Len(file.data) = 3
    /\ [i \in 1..3 |-> file.data[i]["date"].n] = <<20250115, 20250120, 20250201>>
    /\ Len(out) = 1 /\ out[1].msg = "TOTALS"
    /\ [p \in 1..2 |-> out[1].data.body.groups[p].key] = <<202502, 202501>>
    /\ out[1].data.body.groups[2].count = 2
    /\ out[1].data.body.groups[2].total_liters = 7500
    /\ out[1].data.body.groups[2].total_price = 11250

\* The stored records the /pdf update just handled reports on: those of the
\* year it carried, or all of them when it carried none (or the year 0)
PdfScope ==
    IF last.args # <<>> /\ YearTruthy(Some(IntVal(last.args[1])))
    THEN IndexesOfYear(IntVal(last.args[1]))
    ELSE 1..Len(file.data)

\* The document of the /pdf update just handled has its tables and summary
PdfReportProduced ==
    /\ out[2].kind = "document"
    /\ ~out[2].data.doc.notice

\* C11: /pdf never ends with a division error. On a non-empty store of
\* well-typed records with some record in scope the report is produced; in a
\* produced report the average price per liter is zero when the liters in
\* scope sum to zero, and is the total price divided by the total liters (to
\* the thousandth it is shown with) when they sum to more than zero.
C11_AverageGuardedAgainstZeroLiters ==
    (last.op = "pdf" /\ ~BadYear(last) /\ file.data # <<>>)
        => /\ out[2].msg = "ERR_PDF" => out[2].data.e # ZeroDivisionError
           /\ (/\ PdfScope # {}
               /\ \A i \in 1..Len(file.data) : SixKeysTyped(file.data[i]))
                  => PdfReportProduced
           /\ PdfReportProduced
                  => LET avg == out[2].data.doc.summary.avg_price_per_liter
                         liters == StoredSum(PdfScope, "liters")
                         price == StoredSum(PdfScope, "total_price")
                         gap == avg * liters - 1000 * price
                     IN /\ liters = 0 => avg = 0
                        /\ liters > 0 => /\ 2 * gap <= liters
                                         /\ 2 * gap >= -liters

\* a report on records that were paid for but have no liters
C11_Witness ==
    /\ last.op = "pdf"
    /\ PdfReportProduced
    /\ out[2].data.doc.summary.total_tickets > 0
    /\ out[2].data.doc.summary.total_liters = 0
    /\ out[2].data.doc.summary.total_price > 0
    /\ out[2].data.doc.summary.avg_price_per_liter = 0

====
